---- MODULE Spec2Model ----
(***************************************************************************)
(* A model of the instantiation core of bqskit: the CircuitGate adapter,   *)
(* the VariableUnitaryGate, and the shared utilities of the Instantiater   *)
(* strategy base class.                                                    *)
(*                                                                         *)
(* Complex numbers are pairs <<re, im>> of integers; matrices are          *)
(* sequences of rows.  The numerical routines are exact on the matrices    *)
(* the model draws (monomial matrices with axis-aligned entries).          *)
(***************************************************************************)
EXTENDS Integers, Sequences, FiniteSets, TLC

\* ---------------------------------------------------------------- bounds
\* Most qudits a caller's circuit grows to.
MaxQudits == 2
\* Most gate placements a caller's circuit holds.
MaxOps == 2

\* ----------------------------------------------------------------- state
\* The CircuitGate adapter and its caller.
VARIABLES
    heap,      \* the circuit objects, by identity
    gate,      \* <<>> before construction, then <<the CircuitGate>>
    cgOp,      \* the operation the last step ran
    cgRet,     \* what that operation returned
    cgRead,    \* whether that operation dereferenced the gate's _circuit
    built,     \* history: <<>>, then <<the move flag and the circuit given>>
    touched    \* history: the caller mutated its circuit after construction

cgVars == <<heap, gate, cgOp, cgRet, cgRead, built, touched>>

\* The shared utilities of the Instantiater.
VARIABLES
    rng,       \* position of numpy's process-global random stream
    isOp,      \* the Instantiater utility the last step ran
    isArgs,    \* its arguments
    isRet,     \* its outcome: a returned value or a raised error
    isCalls    \* the constructors check_target tried, in order

isVars == <<rng, isOp, isArgs, isRet, isCalls>>

\* A VariableUnitaryGate and its caller.
VARIABLES
    vgate,     \* <<>> before construction, then <<the VariableUnitaryGate>>
    vuOp,      \* the operation the last step ran
    vuArgs,    \* its arguments
    vuRet,     \* its outcome: a returned value or a raised error
    vuSteps    \* the steps it went through, in order

vuVars == <<vgate, vuOp, vuArgs, vuRet, vuSteps>>

\* Threads calling into one shared gate, strategy and circuit.
VARIABLES
    shGate,     \* the shared VariableUnitaryGate
    shStrategy, \* the shared Instantiater's attributes (it has none)
    shCircuit,  \* the shared circuit
    shRng,      \* position of numpy's process-global random stream
    pc,         \* per thread: where it is in its call
    call,       \* per thread: the call it makes
    result      \* per thread: the outcome of its call

ccVars == <<shGate, shStrategy, shCircuit, shRng, pc, call, result>>

vars == <<cgVars, isVars, vuVars, ccVars>>

\* The parts of the state a scenario leaves alone.
CGIdle ==
    /\ heap = <<>> /\ gate = <<>> /\ cgOp = "none" /\ cgRet = <<>>
    /\ cgRead = FALSE /\ built = <<>> /\ touched = FALSE
ISIdle ==
    /\ rng = 0 /\ isOp = "none" /\ isArgs = <<>> /\ isRet = <<>>
    /\ isCalls = <<>>
VUIdle ==
    /\ vgate = <<>> /\ vuOp = "none" /\ vuArgs = <<>> /\ vuRet = <<>>
    /\ vuSteps = <<>>
CCIdle ==
    /\ shGate = <<>> /\ shStrategy = <<>> /\ shCircuit = <<>> /\ shRng = 0
    /\ pc = <<>> /\ call = <<>> /\ result = <<>>

\* ------------------------------------------------------- complex numbers
CZero == <<0, 0>>
COne == <<1, 0>>
CAdd(a, b) == <<a[1] + b[1], a[2] + b[2]>>
CMul(a, b) == <<a[1] * b[1] - a[2] * b[2], a[1] * b[2] + a[2] * b[1]>>
CConj(a) == <<a[1], 0 - a[2]>>

RECURSIVE CSum(_, _)
\* Sum of f[1] .. f[n].
CSum(f, n) == IF n = 0 THEN CZero ELSE CAdd(CSum(f, n - 1), f[n])

\* Matrix product of two n x n matrices.
MatMul(A, B) ==
    LET n == Len(A)
    IN  [r \in 1..n |-> [c \in 1..n |->
            CSum([k \in 1..n |-> CMul(A[r][k], B[k][c])], n)]]

\* Conjugate transpose.
ConjT(A) ==
    LET n == Len(A)
    IN  [r \in 1..n |-> [c \in 1..n |-> CConj(A[c][r])]]

Identity(n) == [r \in 1..n |-> [c \in 1..n |-> IF r = c THEN COne ELSE CZero]]

\* ------------------------------------------------------------ leaf gates
\* The Pauli X gate: one qubit, a constant unitary.
XGate ==
    [ name |-> "XGate",
      num_qudits |-> 1,
      qasm_name |-> "x",
      utry |-> << <<CZero, COne>>,
                  <<COne, CZero>> >> ]

\* A one-qubit constant gate that does not offer a gradient (the phase
\* flip), standing for the gates of a circuit that are not differentiable.
OpaqueGate ==
    [ name |-> "OpaqueGate",
      num_qudits |-> 1,
      qasm_name |-> "opaque",
      utry |-> << <<COne, CZero>>,
                  <<CZero, <<-1, 0>> >> >> ]

LeafGates == {XGate, OpaqueGate}

Gate_is_differentiable(g) == g.name = "XGate"

\* ------------------------------------------------- the circuit collaborator
\* A circuit is its per-qudit radixes and its sequence of gate placements.
Radixes == {2, 3}

NewCircuit(radixes) == [radixes |-> radixes, ops |-> <<>>]

Circuit_get_size(c) == Len(c.radixes)

Circuit_get_radixes(c) == c.radixes

RECURSIVE FactorOf(_, _, _)
\* The unitary the first n placements of c apply to qudit q.
FactorOf(c, q, n) ==
    IF n = 0 THEN Identity(c.radixes[q])
    ELSE IF c.ops[n].location = q
         THEN MatMul(c.ops[n].gate.utry, FactorOf(c, q, n - 1))
         ELSE FactorOf(c, q, n - 1)

\* The circuit's unitary, kept as its tensor factors, one per qudit (every
\* gate of the model acts on one qudit).
Circuit_get_unitary(c) ==
    [q \in 1..Len(c.radixes) |-> FactorOf(c, q, Len(c.ops))]

Circuit_is_differentiable(c) ==
    \A i \in 1..Len(c.ops) : Gate_is_differentiable(c.ops[i].gate)

Circuit_append_gate(c, g, q) ==
    [c EXCEPT !.ops = Append(@, [gate |-> g, location |-> q])]

Circuit_pop(c) ==
    [c EXCEPT !.ops = SubSeq(@, 1, Len(@) - 1)]

Circuit_append_qudit(c, radix) ==
    [c EXCEPT !.radixes = Append(@, radix)]

\* circuit.copy(): a fresh object holding an equal, independent circuit.
Circuit_copy(h, id, fresh) == (fresh :> h[id]) @@ h

\* ------------------------------------------------------------ CircuitGate

Caller == "caller"
Copied == "copy"

\* A constructor that keeps the caller's object whatever the flag says.
WrappedCircuit_alias(h, circuit, move) == [id |-> circuit, heap |-> h]

\* CircuitGate.__init__: the object it wraps (and the heap after a copy).
WrappedCircuit(h, circuit, move) ==
    IF move THEN [id |-> circuit, heap |-> h]
    ELSE [id |-> Copied, heap |-> Circuit_copy(h, circuit, Copied)]

\* A constructor that caches the number of placements as the size.
CircuitGate_init_len(h, circuit, move) ==
    LET w == WrappedCircuit(h, circuit, move)
    IN  [ heap |-> w.heap,
          self |-> [ circuit |-> w.id,
                     size |-> Len(w.heap[w.id].ops),
                     radixes |-> Circuit_get_radixes(w.heap[w.id]),
                     utry |-> Circuit_get_unitary(w.heap[w.id]) ] ]

CircuitGate_init(h, circuit, move) ==
    LET w == WrappedCircuit(h, circuit, move)
    IN  [ heap |-> w.heap,
          self |-> [ circuit |-> w.id,
                     size |-> Circuit_get_size(w.heap[w.id]),
                     radixes |-> Circuit_get_radixes(w.heap[w.id]),
                     utry |-> Circuit_get_unitary(w.heap[w.id]) ] ]

\* A predicate that is content with one differentiable placement.
CircuitGate_is_differentiable_any(self, h) ==
    \/ Len(h[self.circuit].ops) = 0
    \/ \E i \in 1..Len(h[self.circuit].ops) :
          Gate_is_differentiable(h[self.circuit].ops[i].gate)

\* CircuitGate.is_differentiable
CircuitGate_is_differentiable(self, h) ==
    Circuit_is_differentiable(h[self.circuit])

CGInit ==
    /\ \E r \in Radixes : heap = (Caller :> NewCircuit(<<r>>))
    /\ gate = <<>>
    /\ cgOp = "none"
    /\ cgRet = <<>>
    /\ cgRead = FALSE
    /\ built = <<>>
    /\ touched = FALSE
    /\ ISIdle /\ VUIdle /\ CCIdle

\* The caller edits its circuit object (before or after handing it over).
AppendGate ==
    /\ Len(heap[Caller].ops) < MaxOps
    /\ \E g \in LeafGates, q \in 1..Len(heap[Caller].radixes) :
          /\ heap[Caller].radixes[q] = 2
          /\ heap' = [heap EXCEPT ![Caller] = Circuit_append_gate(@, g, q)]
    /\ touched' = (gate # <<>>)
    /\ cgOp' = "append_gate"
    /\ cgRet' = <<>>
    /\ cgRead' = FALSE
    /\ UNCHANGED <<gate, built, isVars, vuVars, ccVars>>

PopGate ==
    /\ Len(heap[Caller].ops) > 0
    /\ heap' = [heap EXCEPT ![Caller] = Circuit_pop(@)]
    /\ touched' = (gate # <<>>)
    /\ cgOp' = "pop"
    /\ cgRet' = <<>>
    /\ cgRead' = FALSE
    /\ UNCHANGED <<gate, built, isVars, vuVars, ccVars>>

AppendQudit ==
    /\ Len(heap[Caller].radixes) < MaxQudits
    /\ \E r \in Radixes :
          heap' = [heap EXCEPT ![Caller] = Circuit_append_qudit(@, r)]
    /\ touched' = (gate # <<>>)
    /\ cgOp' = "append_qudit"
    /\ cgRet' = <<>>
    /\ cgRead' = FALSE
    /\ UNCHANGED <<gate, built, isVars, vuVars, ccVars>>

Construct ==
    /\ gate = <<>>
    /\ \E move \in BOOLEAN :
          LET made == CircuitGate_init(heap, Caller, move)
          IN  /\ heap' = made.heap
              /\ gate' = <<made.self>>
              /\ built' = <<[move |-> move, circuit |-> heap[Caller]]>>
    /\ cgOp' = "construct"
    /\ cgRet' = <<>>
    /\ cgRead' = TRUE
    /\ UNCHANGED <<touched, isVars, vuVars, ccVars>>

IsDifferentiable ==
    /\ gate # <<>>
    /\ cgOp' = "is_differentiable"
    /\ cgRet' = <<CircuitGate_is_differentiable(gate[1], heap)>>
    /\ cgRead' = TRUE
    /\ UNCHANGED <<heap, gate, built, touched, isVars, vuVars, ccVars>>

\* Reading the cached attributes size, radixes and utry.
ReadCache ==
    /\ gate # <<>>
    /\ cgOp' = "read_cache"
    /\ cgRet' = <<gate[1].size, gate[1].radixes, gate[1].utry>>
    /\ cgRead' = FALSE
    /\ UNCHANGED <<heap, gate, built, touched, isVars, vuVars, ccVars>>

CGNext ==
    \/ AppendGate
    \/ PopGate
    \/ AppendQudit
    \/ Construct
    \/ IsDifferentiable
    \/ ReadCache

SpecCG == CGInit /\ [][CGNext]_vars

\* The gate's cache agrees with the circuit the gate wraps now.
CacheConsistent ==
    LET g == gate[1]
        c == heap[g.circuit]
    IN  /\ g.size = Len(c.radixes)
        /\ g.radixes = c.radixes
        /\ g.utry = Circuit_get_unitary(c)

\* C1: a gate built on the copy path wraps an object other than the
\* caller's, and its size, radixes, unitary and wrapped circuit are those of
\* the caller's circuit at construction, whatever the caller did to its
\* circuit since.
C1_CopyFrozen ==
    (gate # <<>> /\ ~built[1].move) =>
        LET g == gate[1]
            c0 == built[1].circuit
        IN  /\ g.circuit # Caller
            /\ heap[g.circuit] = c0
            /\ g.size = Len(c0.radixes)
            /\ g.radixes = c0.radixes
            /\ g.utry = Circuit_get_unitary(c0)

\* A copy-built gate whose caller has since changed the size, the radixes
\* and the unitary of its own circuit.
C1_Witness ==
    /\ gate # <<>>
    /\ ~built[1].move
    /\ touched
    /\ Len(heap[Caller].radixes) # gate[1].size
    /\ Len(heap[Caller].ops) > Len(built[1].circuit.ops)
    /\ Circuit_get_unitary(heap[Caller]) # gate[1].utry

\* C2 as stated: on either construction path and whatever the caller does,
\* the cached size, radixes and unitary are those of the wrapped circuit.
C2_AlwaysConsistent == gate # <<>> => CacheConsistent

\* C2 amended: the cache agrees with the wrapped circuit for every
\* copy-built gate, and for a move-built gate as long as the caller has not
\* mutated the circuit it handed over.
C2_ConsistentUnlessMovedAndTouched ==
    (gate # <<>> /\ (~built[1].move \/ ~touched)) => CacheConsistent

\* A copy-built gate after caller mutations, with a non-trivial cache.
C2_Witness ==
    /\ gate # <<>>
    /\ ~built[1].move
    /\ touched
    /\ gate[1].size = 2
    /\ gate[1].utry # Circuit_get_unitary(NewCircuit(gate[1].radixes))

\* C10: a step that returns from is_differentiable returns whether every
\* placement of the circuit wrapped at that moment is differentiable and
\* changes neither the heap nor the gate; among the gate's operations after
\* construction it alone dereferences the wrapped circuit.
C10_IsDifferentiable ==
    [][ /\ cgOp' = "is_differentiable" =>
            /\ heap' = heap
            /\ gate' = gate
            /\ cgRet' = << \A i \in 1..Len(heap[gate[1].circuit].ops) :
                             heap[gate[1].circuit].ops[i].gate.name = "XGate" >>
        /\ cgRead' => cgOp' \in {"construct", "is_differentiable"}
      ]_vars

\* is_differentiable answered on a moved circuit that the caller changed
\* after construction, and the answer differs from the one at construction.
C10_Witness ==
    /\ cgOp = "is_differentiable"
    /\ built[1].move
    /\ touched
    /\ cgRet[1] # Circuit_is_differentiable(built[1].circuit)


\* ------------------------------------------------------------ Instantiater
\* Most starting points asked for.
MaxStarts == 2
\* Most free parameters of the circuit handed to gen_starting_points.
MaxParams == 2
\* Length of the cycle of the process-global random stream (longer than
\* the draws two concurrent calls make together).
StreamLen == 9


Return(v) == [kind |-> "return", value |-> v]
Raise(e, about) == [kind |-> "raise", exc |-> e, about |-> about]

\* A Python number: its type and twice its value (so that halves are exact).
Number(type, twice) == [type |-> type, twice |-> twice]
TypeOf(x) == x.type

\* The multistarts arguments: the integers -1 .. MaxStarts and the floats
\* -1.5, -0.5, 0.5, ... with a fractional part.
Multistarts ==
    {Number("int", 2 * v) : v \in (0 - 1)..MaxStarts} \cup
    {Number("float", 2 * v + 1) : v \in (0 - 2)..MaxStarts}

\* bqskit.utils.typing.is_integer
is_integer(x) == x.type = "int"

\* np.random.random(n): n draws from the global stream, which they advance.
\* A draw is named by its position in the stream.
np_random_random(s, n) ==
    [ value |-> [i \in 1..n |-> (s + i - 1) % StreamLen],
      state |-> (s + n) % StreamLen ]

\* One element of the comprehension: np.random.random(circuit.num_params).
StartingPoint(s, circuit) == np_random_random(s, circuit.num_params)

RECURSIVE Comprehension(_, _, _)
\* [np.random.random(circuit.num_params) for i in range(k)], from stream
\* position s.
Comprehension(s, circuit, k) ==
    IF k <= 0 THEN [points |-> <<>>, state |-> s]
    ELSE LET before == Comprehension(s, circuit, k - 1)
             d == StartingPoint(before.state, circuit)
         IN  [points |-> Append(before.points, d.value), state |-> d.state]

\* A gen_starting_points that tests positivity before integrality.
gen_starting_points_swapped(multistarts, circuit, target, s) ==
    IF multistarts.twice <= 0
    THEN [ret |-> Raise("ValueError", multistarts), rng |-> s]
    ELSE IF ~is_integer(multistarts)
    THEN [ret |-> Raise("TypeError", TypeOf(multistarts)), rng |-> s]
    ELSE LET d == Comprehension(s, circuit, multistarts.twice \div 2)
         IN  [ret |-> Return(d.points), rng |-> d.state]

\* Instantiater.gen_starting_points
gen_starting_points(multistarts, circuit, target, s) ==
    IF ~is_integer(multistarts)
    THEN [ret |-> Raise("TypeError", TypeOf(multistarts)), rng |-> s]
    ELSE IF multistarts.twice <= 0
    THEN [ret |-> Raise("ValueError", multistarts), rng |-> s]
    ELSE LET d == Comprehension(s, circuit, multistarts.twice \div 2)
         IN  [ret |-> Return(d.points), rng |-> d.state]

\* What a constructor of a value type does with an input.
Outcomes == {"ok", "ValueError", "TypeError"}
TargetTypes == {"list", "ndarray", "str"}

\* The inputs of check_target: the input's type and what each value type's
\* constructor makes of it.
Targets == [type : TargetTypes, as_state : Outcomes, as_unitary : Outcomes]

\* StateVector(target)
StateVector(t) ==
    IF t.as_state = "ok"
    THEN Return([class |-> "StateVector", of |-> t])
    ELSE Raise(t.as_state, t)

\* UnitaryMatrix(target)
UnitaryMatrix(t) ==
    IF t.as_unitary = "ok"
    THEN Return([class |-> "UnitaryMatrix", of |-> t])
    ELSE Raise(t.as_unitary, t)

\* A check_target that tries the unitary interpretation first.
check_target_unitary_first(self, target) ==
    LET u == UnitaryMatrix(target)
        st == StateVector(target)
    IN  IF u.kind = "return"
        THEN [self |-> self, ret |-> u, calls |-> <<"UnitaryMatrix">>]
        ELSE IF st.kind = "return"
        THEN [self |-> self, ret |-> st,
              calls |-> <<"UnitaryMatrix", "StateVector">>]
        ELSE [self |-> self, ret |-> Raise("TypeError", target.type),
              calls |-> <<"UnitaryMatrix", "StateVector">>]

\* A check_target that keeps the typed target on the strategy object.
check_target_caching(self, target) ==
    LET st == StateVector(target)
        u == UnitaryMatrix(target)
    IN  IF st.kind = "return"
        THEN [self |-> <<st.value>>, ret |-> st, calls |-> <<"StateVector">>]
        ELSE IF u.kind = "return"
        THEN [self |-> <<u.value>>, ret |-> u,
              calls |-> <<"StateVector", "UnitaryMatrix">>]
        ELSE [self |-> self, ret |-> Raise("TypeError", target.type),
              calls |-> <<"StateVector", "UnitaryMatrix">>]

\* Instantiater.check_target: the strategy object after the call, the
\* outcome, and the constructors tried.
check_target(self, target) ==
    LET st == StateVector(target)
        u == UnitaryMatrix(target)
    IN  IF st.kind = "return"
        THEN [self |-> self, ret |-> st, calls |-> <<"StateVector">>]
        ELSE IF u.kind = "return"
        THEN [self |-> self, ret |-> u,
              calls |-> <<"StateVector", "UnitaryMatrix">>]
        ELSE [self |-> self, ret |-> Raise("TypeError", target.type),
              calls |-> <<"StateVector", "UnitaryMatrix">>]

ISInit ==
    /\ rng = 0
    /\ isOp = "none"
    /\ isArgs = <<>>
    /\ isRet = <<>>
    /\ isCalls = <<>>
    /\ CGIdle /\ VUIdle /\ CCIdle

GenStartingPoints ==
    \E k \in Multistarts, n \in 0..MaxParams, t \in {"unitary", "state"} :
        LET out == gen_starting_points(k, [num_params |-> n], t, rng)
        IN  /\ isOp' = "gen_starting_points"
            /\ isArgs' = [multistarts |-> k, num_params |-> n, target |-> t]
            /\ isRet' = out.ret
            /\ rng' = out.rng
            /\ isCalls' = <<>>
            /\ UNCHANGED <<cgVars, vuVars, ccVars>>

CheckTarget ==
    \E t \in Targets :
        LET out == check_target(<<>>, t)
        IN  /\ isOp' = "check_target"
            /\ isArgs' = [target |-> t]
            /\ isRet' = out.ret
            /\ isCalls' = out.calls
            /\ UNCHANGED <<rng, cgVars, vuVars, ccVars>>

ISNext ==
    \/ GenStartingPoints
    \/ CheckTarget

SpecIS == ISInit /\ [][ISNext]_vars

C4_CheckTarget ==
    isOp = "check_target" =>
        LET t == isArgs.target
        IN  /\ t.as_state = "ok" =>
                /\ isRet = Return([class |-> "StateVector", of |-> t])
                /\ isCalls = <<"StateVector">>
            /\ (t.as_state # "ok" /\ t.as_unitary = "ok") =>
                /\ isRet = Return([class |-> "UnitaryMatrix", of |-> t])
                /\ isCalls = <<"StateVector", "UnitaryMatrix">>
            /\ isRet.kind = "raise" <=> (t.as_state # "ok" /\ t.as_unitary # "ok")
            /\ isRet.kind = "raise" =>
                /\ isRet.exc = "TypeError"
                /\ isRet.about = t.type
                /\ isCalls = <<"StateVector", "UnitaryMatrix">>

\* An input both constructors accept came back as a state.
C4_Witness ==
    /\ isOp = "check_target"
    /\ isArgs.target.as_state = "ok"
    /\ isArgs.target.as_unitary = "ok"
    /\ isRet.kind = "return"
    /\ isRet.value.class = "StateVector"


\* ----------------------------------------------------- VariableUnitaryGate
\* Most qudits asked of a VariableUnitaryGate.
MaxGateQudits == 2
\* The entries of a radixes argument (1 is not a radix).
RadixEntries == {1, 2, 3}

RECURSIVE Prod(_)
\* np.prod
Prod(seq) == IF Len(seq) = 0 THEN 1 ELSE Head(seq) * Prod(Tail(seq))

\* bqskit.utils.typing.is_valid_radixes
is_valid_radixes(radixes, num_qudits) ==
    /\ Len(radixes) = num_qudits
    /\ \A i \in 1..Len(radixes) : radixes[i] >= 2

ValidationErrors == {"ValueError", "TypeError"}

\* A constructor that counts one parameter per matrix entry and part, but
\* takes the dimension for the number of entries.
VariableUnitaryGate_init_linear(num_qudits, radixes) ==
    IF num_qudits <= 0 THEN Raise("ValueError", num_qudits)
    ELSE LET r == IF Len(radixes) = 0 THEN [i \in 1..num_qudits |-> 2]
                  ELSE radixes
         IN  IF ~is_valid_radixes(r, num_qudits)
             THEN Raise("TypeError", radixes)
             ELSE Return([ num_qudits |-> num_qudits,
                           radixes |-> r,
                           dim |-> Prod(r),
                           shape |-> <<Prod(r), Prod(r)>>,
                           num_params |-> 2 * Prod(r),
                           name |-> <<"VariableUnitaryGate", num_qudits>> ])

\* VariableUnitaryGate.__init__: the gate made, or the error raised.
VariableUnitaryGate_init(num_qudits, radixes) ==
    IF num_qudits <= 0 THEN Raise("ValueError", num_qudits)
    ELSE LET r == IF Len(radixes) = 0 THEN [i \in 1..num_qudits |-> 2]
                  ELSE radixes
         IN  IF ~is_valid_radixes(r, num_qudits)
             THEN Raise("TypeError", radixes)
             ELSE Return([ num_qudits |-> num_qudits,
                           radixes |-> r,
                           dim |-> Prod(r),
                           shape |-> <<Prod(r), Prod(r)>>,
                           num_params |-> 2 * Prod(r) * Prod(r),
                           name |-> <<"VariableUnitaryGate", num_qudits>> ])

\* The default gate: one qubit.
QubitGate == VariableUnitaryGate_init(1, <<>>).value

\* ---- the matrices of the model
Abs(x) == IF x < 0 THEN 0 - x ELSE x
CScale(m, z) == <<m * z[1], m * z[2]>>

\* The complex units on the axes.
Units == {<<1, 0>>, <<0, 1>>, <<-1, 0>>, <<0, -1>>}

Perms(n) == {p \in [1..n -> 1..n] : \A i, j \in 1..n : p[i] = p[j] => i = j}

\* The n x n matrices with entry e[r] at (r, p[r]) and zeros elsewhere.
Monomial(n, p, e) ==
    [r \in 1..n |-> [c \in 1..n |-> IF p[r] = c THEN e[r] ELSE CZero]]

\* The unitary matrices among them: a permutation with axis-unit phases.
MonomialUnitaries(n) ==
    {Monomial(n, p, u) : p \in Perms(n), u \in [1..n -> Units]}

\* The entries of the matrices handed to the gate: zero, and one entry on
\* each half-axis, one of them not of unit magnitude.
Entries == {CZero, <<1, 0>>, <<0, 1>>, <<-1, 0>>, <<0, -2>>}

\* The matrices handed to the gate: invertible, singular and zero ones.
Monomials(n) ==
    {Monomial(n, p, e) : p \in Perms(n), e \in [1..n -> Entries]}

\* Those of the qubit gate's dimension.
QubitUnitaries == MonomialUnitaries(QubitGate.dim)

RECURSIVE NatSum(_, _)
NatSum(f, n) == IF n = 0 THEN 0 ELSE NatSum(f, n - 1) + f[n]

\* The magnitude of row r of a matrix with one axis-aligned entry per row.
RowMag(X, r) ==
    NatSum([c \in 1..Len(X[r]) |-> Abs(X[r][c][1]) + Abs(X[r][c][2])],
           Len(X[r]))

Sgn(x) == IF x < 0 THEN 0 - 1 ELSE IF x > 0 THEN 1 ELSE 0

\* scipy.linalg.svd(M): every factorisation M = U diag(S) Vh with U and Vh
\* unitary and S non-negative and descending.  Which one the library
\* returns is its own choice when singular values repeat or vanish.  (With
\* no vanishing singular value U determines Vh, the phases of U^H M.)
SVDs(M) ==
    LET n == Len(M)
        MU == IF n = QubitGate.dim THEN QubitUnitaries
              ELSE MonomialUnitaries(n)
        Desc(X) == \A r \in 1..(n - 1) : RowMag(X, r) >= RowMag(X, r + 1)
        Fits(X, V) ==
            \A r, c \in 1..n : X[r][c] = CScale(RowMag(X, r), V[r][c])
        Phases(X) ==
            [r \in 1..n |-> [c \in 1..n |-> <<Sgn(X[r][c][1]), Sgn(X[r][c][2])>>]]
    IN  UNION { LET X == MatMul(ConjT(U), M)
                    S == [r \in 1..n |-> RowMag(X, r)]
                IN  IF ~Desc(X) THEN {}
                    ELSE IF \A r \in 1..n : S[r] > 0
                    THEN { [U |-> U, S |-> S, Vh |-> V]
                           : V \in {W \in {Phases(X)} : W \in MU /\ Fits(X, W)} }
                    ELSE { [U |-> U, S |-> S, Vh |-> V]
                           : V \in {W \in MU : Fits(X, W)} }
              : U \in MU }

\* UnitaryMatrix.closest_to(M): the product of the two unitary factors.
closest_to(M) == {MatMul(f.U, f.Vh) : f \in SVDs(M)}

\* np.reshape(x, shape), row by row.
Reshape(x, shape) ==
    [r \in 1..shape[1] |-> [c \in 1..shape[2] |-> x[(r - 1) * shape[2] + c]]]

\* np.reshape(M, (n * n,))
Flat(M) ==
    LET n == Len(M)
    IN  [i \in 1..(n * n) |-> M[((i - 1) \div n) + 1][((i - 1) % n) + 1]]

\* Unitary.check_parameters
check_parameters(self, params) == Len(params) = self.num_params

\* LocallyOptimizableUnitary.check_env_matrix
check_env_matrix(self, env_matrix) ==
    /\ Len(env_matrix) = self.dim
    /\ \A r \in 1..Len(env_matrix) : Len(env_matrix[r]) = self.dim

\* A get_unitary that checks nothing and cuts or pads the vector to size.
get_unitary_unchecked(self, params) ==
    LET half == self.dim * self.dim
        at(i) == IF i <= Len(params) THEN params[i] ELSE 0
        x == [i \in 1..half |-> <<at(i), at(half + i)>>]
    IN  { [ret |-> Return(W), steps |-> <<"split", "reshape", "closest_to">>]
          : W \in closest_to(Reshape(x, self.shape)) }

\* VariableUnitaryGate.get_unitary: its possible outcomes.
get_unitary(self, params) ==
    IF ~check_parameters(self, params)
    THEN { [ret |-> Raise("ValueError", "params"),
            steps |-> <<"check_parameters">>] }
    ELSE LET mid == Len(params) \div 2
             real == SubSeq(params, 1, mid)
             imag == SubSeq(params, mid + 1, Len(params))
             x == [i \in 1..mid |-> CAdd(<<real[i], 0>>,
                                         CMul(<<0, 1>>, <<imag[i], 0>>))]
         IN  { [ret |-> Return(W),
                steps |-> <<"check_parameters", "split", "reshape",
                            "closest_to">>]
               : W \in closest_to(Reshape(x, self.shape)) }

\* A get_grad that validates its argument before it refuses.
get_grad_checked(self, params) ==
    IF ~check_parameters(self, params)
    THEN [ret |-> Raise("ValueError", "params"),
          steps |-> <<"check_parameters">>]
    ELSE [ret |-> Raise("NotImplementedError", "get_grad"), steps |-> <<>>]

\* VariableUnitaryGate.get_grad
get_grad(self, params) ==
    [ret |-> Raise("NotImplementedError", "get_grad"), steps |-> <<>>]

\* An optimize that multiplies the factors without conjugate-transposing.
optimize_plain(self, env_matrix) ==
    IF ~check_env_matrix(self, env_matrix)
    THEN { [ret |-> Raise("TypeError", "env_matrix"),
            steps |-> <<"check_env_matrix">>] }
    ELSE { LET x == Flat(MatMul(f.U, f.Vh))
               half == self.num_params \div 2
           IN  [ret |-> Return([i \in 1..half |-> x[i][1]] \o
                               [i \in 1..half |-> x[i][2]]),
                steps |-> <<"check_env_matrix", "svd", "reshape", "concat">>]
           : f \in SVDs(env_matrix) }

\* VariableUnitaryGate.optimize: its possible outcomes.
optimize(self, env_matrix) ==
    IF ~check_env_matrix(self, env_matrix)
    THEN { [ret |-> Raise("TypeError", "env_matrix"),
            steps |-> <<"check_env_matrix">>] }
    ELSE { LET x == Flat(MatMul(ConjT(f.Vh), ConjT(f.U)))
               half == self.num_params \div 2
           IN  [ret |-> Return([i \in 1..half |-> x[i][1]] \o
                               [i \in 1..half |-> x[i][2]]),
                steps |-> <<"check_env_matrix", "svd", "reshape", "concat">>]
           : f \in SVDs(env_matrix) }

\* ---- the inputs the caller draws
RECURSIVE SeqsUpTo(_, _)
\* The sequences over S of length at most n.
SeqsUpTo(S, n) ==
    IF n = 0 THEN {<<>>}
    ELSE LET shorter == SeqsUpTo(S, n - 1)
         IN  shorter \cup {Append(q, x) : q \in shorter, x \in S}

RadixArgs == SeqsUpTo(RadixEntries, MaxGateQudits + 1)

\* The real and then the imaginary parts of a matrix, row by row.
ParamsOf(M) ==
    LET x == Flat(M)
    IN  [i \in 1..Len(x) |-> x[i][1]] \o [i \in 1..Len(x) |-> x[i][2]]

\* Environment matrices: the qubit-sized ones, and ones of other shapes.
EnvArgs ==
    Monomials(QubitGate.dim) \cup
    { Identity(QubitGate.dim - 1), Identity(QubitGate.dim + 1),
      <<Identity(QubitGate.dim)[1]>> }

\* Parameter vectors: of the qubit gate's length, one shorter, one longer,
\* and the omitted argument.
WrongLengthArgs ==
    LET q == ParamsOf(Identity(QubitGate.dim))
    IN  {SubSeq(q, 1, Len(q) - 1), Append(q, 0), q \o q, <<>>}

ParamArgs ==
    {ParamsOf(M) : M \in Monomials(QubitGate.dim)} \cup WrongLengthArgs

\* The arguments of get_grad: a vector of the qubit gate's length, vectors
\* of other lengths, and the omitted argument.
GradArgs == {ParamsOf(Identity(QubitGate.dim))} \cup WrongLengthArgs

Pending == [kind |-> "pending"]

VUInit ==
    /\ vgate = <<>>
    /\ vuOp = "none"
    /\ vuArgs = <<>>
    /\ vuRet = <<>>
    /\ vuSteps = <<>>
    /\ CGIdle /\ ISIdle /\ CCIdle

\* No call is under way.
VUAtRest == vuRet = <<>> \/ vuRet.kind # "pending"

VUConstruct ==
    /\ vgate = <<>>
    /\ \E n \in (0 - 1)..MaxGateQudits, r \in RadixArgs :
          LET out == VariableUnitaryGate_init(n, r)
          IN  /\ vuArgs' = [num_qudits |-> n, radixes |-> r]
              /\ vuRet' = out
              /\ vgate' = IF out.kind = "return" THEN <<out.value>> ELSE <<>>
    /\ vuOp' = "init"
    /\ vuSteps' = <<>>
    /\ UNCHANGED <<cgVars, isVars, ccVars>>

\* The caller calls get_unitary, with a vector of its own or with the one
\* optimize has just returned.
CallGetUnitary ==
    /\ vgate # <<>>
    /\ VUAtRest
    /\ LET fresh == vuOp = "optimize" /\ vuRet.kind = "return"
       IN  \E params \in ParamArgs \cup (IF fresh THEN {vuRet.value} ELSE {}) :
              vuArgs' = [ params |-> params,
                          env |-> IF fresh /\ vuRet.value = params
                                  THEN <<vuArgs.env_matrix>> ELSE <<>> ]
    /\ vuOp' = "get_unitary"
    /\ vuRet' = Pending
    /\ vuSteps' = <<>>
    /\ UNCHANGED <<vgate, cgVars, isVars, ccVars>>

ReturnGetUnitary ==
    /\ vuOp = "get_unitary"
    /\ vuRet = Pending
    /\ \E out \in get_unitary(vgate[1], vuArgs.params) :
          /\ vuRet' = out.ret
          /\ vuSteps' = out.steps
    /\ UNCHANGED <<vgate, vuOp, vuArgs, cgVars, isVars, ccVars>>

CallGetGrad ==
    /\ vgate # <<>>
    /\ VUAtRest
    /\ \E params \in GradArgs : vuArgs' = [params |-> params]
    /\ vuOp' = "get_grad"
    /\ vuRet' = Pending
    /\ vuSteps' = <<>>
    /\ UNCHANGED <<vgate, cgVars, isVars, ccVars>>

ReturnGetGrad ==
    /\ vuOp = "get_grad"
    /\ vuRet = Pending
    /\ LET out == get_grad(vgate[1], vuArgs.params)
       IN  /\ vuRet' = out.ret
           /\ vuSteps' = out.steps
    /\ UNCHANGED <<vgate, vuOp, vuArgs, cgVars, isVars, ccVars>>

CallOptimize ==
    /\ vgate # <<>>
    /\ VUAtRest
    /\ \E env \in EnvArgs : vuArgs' = [env_matrix |-> env]
    /\ vuOp' = "optimize"
    /\ vuRet' = Pending
    /\ vuSteps' = <<>>
    /\ UNCHANGED <<vgate, cgVars, isVars, ccVars>>

ReturnOptimize ==
    /\ vuOp = "optimize"
    /\ vuRet = Pending
    /\ \E out \in optimize(vgate[1], vuArgs.env_matrix) :
          /\ vuRet' = out.ret
          /\ vuSteps' = out.steps
    /\ UNCHANGED <<vgate, vuOp, vuArgs, cgVars, isVars, ccVars>>

VUNext ==
    \/ VUConstruct
    \/ CallGetUnitary
    \/ ReturnGetUnitary
    \/ CallGetGrad
    \/ ReturnGetGrad
    \/ CallOptimize
    \/ ReturnOptimize

SpecVU == VUInit /\ [][VUNext]_vars


\* The state part of C6.
C6_State ==
    /\ vuOp = "init" =>
          LET n == vuArgs.num_qudits
              r == vuArgs.radixes
              bad == /\ Len(r) > 0
                     /\ \/ Len(r) # n
                        \/ \E i \in 1..Len(r) : r[i] < 2
          IN  /\ (n <= 0 \/ bad) =>
                    /\ vuRet.kind = "raise"
                    /\ vuRet.exc \in ValidationErrors
                    /\ vgate = <<>>
              /\ (n > 0 /\ ~bad) =>
                    /\ vuRet.kind = "return"
                    /\ vgate = <<vuRet.value>>
                    /\ vgate[1].num_qudits = n
                    /\ vgate[1].radixes =
                          IF Len(r) = 0 THEN [i \in 1..n |-> 2] ELSE r
    /\ vgate # <<>> =>
          /\ vgate[1].dim = Prod(vgate[1].radixes)
          /\ vgate[1].num_params = 2 * vgate[1].dim * vgate[1].dim

\* C6: construction raises a validation error for num_qudits <= 0 and for a
\* non-empty radixes of the wrong length or with an entry below 2, and makes
\* no gate; otherwise it makes the gate with the radixes given (all 2 when
\* none are given), dim their product and num_params = 2 * dim^2; and no
\* later step changes a gate once made.
C6_Construction ==
    /\ []C6_State
    /\ [][vgate # <<>> => vgate' = vgate]_vars

\* A gate on a qubit and a qutrit, after a later operation has returned.
C6_Witness ==
    /\ vgate # <<>>
    /\ vgate[1].radixes = <<2, 3>>
    /\ vgate[1].num_params = 72
    /\ vuOp = "optimize"
    /\ vuRet.kind = "raise"

IsSquareOf(E, d) == Len(E) = d /\ \A r \in 1..Len(E) : Len(E[r]) = d

\* C7: get_unitary with a vector whose length is not num_params, and
\* optimize with a matrix that is not dim x dim, raise a validation error
\* having done nothing but the check; and whenever either runs, the check is
\* its first step and no later step.
C7_ChecksFirst ==
    (vuOp \in {"get_unitary", "optimize"} /\ vuRet.kind # "pending") =>
        LET g == vgate[1]
            check == IF vuOp = "get_unitary" THEN "check_parameters"
                     ELSE "check_env_matrix"
            malformed == IF vuOp = "get_unitary"
                         THEN Len(vuArgs.params) # g.num_params
                         ELSE ~IsSquareOf(vuArgs.env_matrix, g.dim)
        IN  /\ malformed =>
                /\ vuRet.kind = "raise"
                /\ vuRet.exc \in ValidationErrors
                /\ vuSteps = <<check>>
            /\ ~malformed => vuRet.kind = "return"
            /\ Len(vuSteps) > 0
            /\ vuSteps[1] = check
            /\ \A i \in 2..Len(vuSteps) : vuSteps[i] # check

\* get_unitary refused a vector one entry too long for the qubit gate.
C7_Witness ==
    /\ vuOp = "get_unitary"
    /\ vgate[1].num_params = 8
    /\ Len(vuArgs.params) = 9
    /\ vuRet.kind = "raise"

\* C8: get_grad, whatever its argument, ends with the not-implemented
\* error, never a validation error or a value, having run no other step,
\* and the step that calls or ends it leaves the gate as it was.
C8_GetGradRefuses ==
    /\ []((vuOp = "get_grad" /\ vuRet.kind # "pending") =>
            /\ vuRet.kind = "raise"
            /\ vuRet.exc = "NotImplementedError"
            /\ vuSteps = <<>>)
    /\ [][vuOp' = "get_grad" => vgate' = vgate]_vars

\* get_grad refused a vector of the wrong length (where a validating
\* method would have raised a validation error).
C8_Witness ==
    /\ vuOp = "get_grad"
    /\ vuRet.kind = "raise"
    /\ Len(vuArgs.params) = 9
    /\ vgate[1].num_params = 8

\* The matrix a parameter vector lays out: real parts, then imaginary parts.
Decoded(p, d) ==
    [r \in 1..d |-> [c \in 1..d |->
        <<p[(r - 1) * d + c], p[d * d + (r - 1) * d + c]>>]]

\* A matrix with no zero row (the monomial matrices that are invertible).
NoZeroRow(E) == \A r \in 1..Len(E) : RowMag(E, r) > 0

\* The phases of the entries of a matrix.
PhasesOf(E) ==
    [r \in 1..Len(E) |-> [c \in 1..Len(E) |->
        <<Sgn(E[r][c][1]), Sgn(E[r][c][2])>>]]

\* C9: for an environment matrix E of the gate's dimension d, optimize
\* returns 2 * d^2 numbers, the real parts and then the imaginary parts of
\* Vh^H U^H for a singular value decomposition U S Vh of E (for invertible
\* E, the conjugate transpose of the unitary polar factor of E); and
\* get_unitary of that vector returns that same unitary.
C9_RoundTrip ==
    /\ ( /\ vuOp = "optimize"
         /\ vuRet.kind # "pending"
         /\ IsSquareOf(vuArgs.env_matrix, vgate[1].dim) ) =>
            LET d == vgate[1].dim
                E == vuArgs.env_matrix
            IN  /\ vuRet.kind = "return"
                /\ Len(vuRet.value) = 2 * d * d
                /\ Len(vuRet.value) = vgate[1].num_params
                /\ \E f \in SVDs(E) :
                      Decoded(vuRet.value, d) = MatMul(ConjT(f.Vh), ConjT(f.U))
                /\ NoZeroRow(E) =>
                      Decoded(vuRet.value, d) = ConjT(PhasesOf(E))
    /\ ( /\ vuOp = "get_unitary"
         /\ vuRet.kind # "pending"
         /\ vuArgs.env # <<>> ) =>
            LET d == vgate[1].dim
                E == vuArgs.env[1]
            IN  /\ vuRet = Return(Decoded(vuArgs.params, d))
                /\ \E f \in SVDs(E) :
                      vuRet.value = MatMul(ConjT(f.Vh), ConjT(f.U))

\* get_unitary returned for the vector optimize had made of a matrix that
\* is not unitary and has an imaginary entry.
C9_Witness ==
    /\ vuOp = "get_unitary"
    /\ vuRet.kind = "return"
    /\ vuArgs.env # <<>>
    /\ vuArgs.env[1][1][1] = <<0, -2>>
    /\ vuArgs.env[1][2][2] = <<0, 1>>
    /\ vuRet.value # vuArgs.env[1]


\* ------------------------------------------- concurrent calls on shared objects
Threads == {"t1", "t2"}

\* The circuit the threads share.
SharedCircuit == [num_params |-> MaxParams]

\* Two matrices for the threads' calls: an invertible and a singular one.
CCMatrices ==
    { M \in Monomials(QubitGate.dim) :
        M[1][1] = <<0, -2>> /\ M[2][2] \in {CZero, <<0, 1>>} }
CCParamArgs == {ParamsOf(M) : M \in CCMatrices} \cup {<<>>}
CCEnvArgs == CCMatrices \cup {Identity(QubitGate.dim - 1)}
CCTargets == {t \in Targets : t.type = "ndarray" /\ t.as_state # "TypeError"}

CCInit ==
    /\ shGate = QubitGate
    /\ shStrategy = <<>>
    /\ shCircuit = SharedCircuit
    /\ shRng = 0
    /\ pc = [t \in Threads |-> "idle"]
    /\ call = [t \in Threads |-> <<>>]
    /\ result = [t \in Threads |-> <<>>]
    /\ CGIdle /\ ISIdle /\ VUIdle

\* Thread t enters a method with its arguments.
Enter(t, c) ==
    /\ pc[t] = "idle"
    /\ pc' = [pc EXCEPT ![t] = "running"]
    /\ call' = [call EXCEPT ![t] = c]
    /\ UNCHANGED <<shGate, shStrategy, shCircuit, shRng, result>>
    /\ UNCHANGED <<cgVars, isVars, vuVars>>

\* Thread t leaves its method with an outcome.
Leave(t, out) ==
    /\ pc' = [pc EXCEPT ![t] = "done"]
    /\ result' = [result EXCEPT ![t] = out]

CCCallGetUnitary(t) ==
    \E params \in CCParamArgs : Enter(t, [op |-> "get_unitary", params |-> params])

CCGetUnitary(t) ==
    /\ pc[t] = "running"
    /\ call[t].op = "get_unitary"
    /\ \E out \in get_unitary(shGate, call[t].params) : Leave(t, out.ret)
    /\ UNCHANGED <<shGate, shStrategy, shCircuit, shRng, call>>
    /\ UNCHANGED <<cgVars, isVars, vuVars>>

CCCallOptimize(t) ==
    \E env \in CCEnvArgs : Enter(t, [op |-> "optimize", env_matrix |-> env])

CCOptimize(t) ==
    /\ pc[t] = "running"
    /\ call[t].op = "optimize"
    /\ \E out \in optimize(shGate, call[t].env_matrix) : Leave(t, out.ret)
    /\ UNCHANGED <<shGate, shStrategy, shCircuit, shRng, call>>
    /\ UNCHANGED <<cgVars, isVars, vuVars>>

CCCallGetGrad(t) ==
    \E params \in CCParamArgs : Enter(t, [op |-> "get_grad", params |-> params])

CCGetGrad(t) ==
    /\ pc[t] = "running"
    /\ call[t].op = "get_grad"
    /\ Leave(t, get_grad(shGate, call[t].params).ret)
    /\ UNCHANGED <<shGate, shStrategy, shCircuit, shRng, call>>
    /\ UNCHANGED <<cgVars, isVars, vuVars>>

CCCallCheckTarget(t) ==
    \E target \in CCTargets : Enter(t, [op |-> "check_target", target |-> target])

CCCheckTarget(t) ==
    /\ pc[t] = "running"
    /\ call[t].op = "check_target"
    /\ LET out == check_target(shStrategy, call[t].target)
       IN  /\ Leave(t, out.ret)
           /\ shStrategy' = out.self
    /\ UNCHANGED <<shGate, shCircuit, shRng, call>>
    /\ UNCHANGED <<cgVars, isVars, vuVars>>

CCCallGenStartingPoints(t) ==
    \E k \in Multistarts :
        Enter(t, [ op |-> "gen_starting_points", multistarts |-> k,
                   target |-> "unitary", points |-> <<>> ])

\* The two checks at the head of gen_starting_points.
CCValidateMultistarts(t) ==
    /\ pc[t] = "running"
    /\ call[t].op = "gen_starting_points"
    /\ LET k == call[t].multistarts
       IN  IF ~is_integer(k)
           THEN Leave(t, Raise("TypeError", TypeOf(k)))
           ELSE IF k.twice <= 0
           THEN Leave(t, Raise("ValueError", k))
           ELSE /\ pc' = [pc EXCEPT ![t] = "drawing"]
                /\ UNCHANGED result
    /\ UNCHANGED <<shGate, shStrategy, shCircuit, shRng, call>>
    /\ UNCHANGED <<cgVars, isVars, vuVars>>

\* One turn of the comprehension: one vector drawn from the global stream.
CCDrawPoint(t) ==
    /\ pc[t] = "drawing"
    /\ 2 * Len(call[t].points) < call[t].multistarts.twice
    /\ LET d == StartingPoint(shRng, shCircuit)
       IN  /\ call' = [call EXCEPT ![t].points = Append(@, d.value)]
           /\ shRng' = d.state
    /\ UNCHANGED <<shGate, shStrategy, shCircuit, pc, result>>
    /\ UNCHANGED <<cgVars, isVars, vuVars>>

CCReturnPoints(t) ==
    /\ pc[t] = "drawing"
    /\ 2 * Len(call[t].points) >= call[t].multistarts.twice
    /\ Leave(t, Return(call[t].points))
    /\ UNCHANGED <<shGate, shStrategy, shCircuit, shRng, call>>
    /\ UNCHANGED <<cgVars, isVars, vuVars>>

CCNext ==
    \E t \in Threads :
        \/ CCCallGetUnitary(t)
        \/ CCGetUnitary(t)
        \/ CCCallOptimize(t)
        \/ CCOptimize(t)
        \/ CCCallGetGrad(t)
        \/ CCGetGrad(t)
        \/ CCCallCheckTarget(t)
        \/ CCCheckTarget(t)
        \/ CCCallGenStartingPoints(t)
        \/ CCValidateMultistarts(t)
        \/ CCDrawPoint(t)
        \/ CCReturnPoints(t)

SpecCC == CCInit /\ [][CCNext]_vars

\* The shared gate, strategy and circuit are as they were made.
SharedUntouched ==
    /\ shGate = QubitGate
    /\ shStrategy = <<>>
    /\ shCircuit = SharedCircuit

\* The outcomes a finished call could have had running alone.
AloneOutcomes(c) ==
    CASE c.op = "get_unitary" ->
            {o.ret : o \in get_unitary(QubitGate, c.params)}
      [] c.op = "optimize" ->
            {o.ret : o \in optimize(QubitGate, c.env_matrix)}
      [] c.op = "get_grad" -> {get_grad(QubitGate, c.params).ret}
      [] c.op = "check_target" -> {check_target(<<>>, c.target).ret}
      [] c.op = "gen_starting_points" ->
            { gen_starting_points(c.multistarts, SharedCircuit, c.target, s).ret
              : s \in 0..(StreamLen - 1) }

\* C5 as stated: under every interleaving the shared gate, strategy and
\* circuit stay as they were, and every finished call has an outcome it
\* could have had running alone (from some position of the random stream).
C5_AsIfAlone ==
    /\ SharedUntouched
    /\ \A t \in Threads :
          pc[t] = "done" => result[t] \in AloneOutcomes(call[t])

\* C5 amended: under every interleaving the shared gate, strategy and
\* circuit stay as they were; every finished get_unitary, optimize, get_grad
\* and check_target has an outcome it could have had running alone; a
\* finished gen_starting_points raised the error it would raise alone or
\* returned multistarts vectors of circuit.num_params entries each, whose
\* values are whatever the process-global stream held at each draw.
C5_ValuesFromSharedStream ==
    /\ SharedUntouched
    /\ \A t \in Threads :
          pc[t] = "done" =>
              IF call[t].op # "gen_starting_points"
              THEN result[t] \in AloneOutcomes(call[t])
              ELSE LET k == call[t].multistarts
                   IN  IF k.type = "int" /\ k.twice > 0
                       THEN /\ result[t].kind = "return"
                            /\ 2 * Len(result[t].value) = k.twice
                            /\ \A i \in 1..Len(result[t].value) :
                                  Len(result[t].value[i]) = shCircuit.num_params
                       ELSE result[t] \in AloneOutcomes(call[t])

\* Two gen_starting_points calls have finished, and the vectors of one are
\* not consecutive draws of the stream: the other call drew in between.
C5_Witness ==
    /\ \A t \in Threads :
          /\ pc[t] = "done"
          /\ call[t].op = "gen_starting_points"
          /\ result[t].kind = "return"
    /\ \E t \in Threads : result[t] \notin AloneOutcomes(call[t])

====
